---- MODULE Spec2Model ----
(***************************************************************************)
(* A model of cmd/pgmetrics/main.go: one run of the pgmetrics command      *)
(* line, from getopt parsing through option validation, password prompt,   *)
(* report loading or collection, and output routing in process().          *)
(***************************************************************************)
EXTENDS Integers, Sequences, FiniteSets, TLC

(* ---------------------------------------------------------------- bounds *)
\* at most this many option flags on the command line
MaxArgs == 2
\* at most this many entries in the --omit list
MaxOmit == 2

(* ------------------------------------------------------------ input sets *)
\* POSIX regular expressions, as sequences of characters
Patterns ==
    { <<>>, <<"a">>, <<"(", "a", ")">>, <<"(", "a">>, <<"a", ")">> }
HelpValues == { "", "short", "variables", "bogus" }
FormatValues == { "human", "json", "csv", "xml" }
PortValues == { 0, 5432 }
TimeoutValues == { 0, 5 }
LockTimeoutValues == { 0, 50 }
OmitEntries == { "tables", "bloat", "nope", "junk" }
ProtoValues == { "simple", "extended", "bogus" }
InputValues == { "saved.json" }
OutputValues == { "-", "out.txt" }
PagerEnvValues == { "", "most" }
VersionValues == { "", "1.17.0" }
TypedPasswords == { "", "pw" }

OmitLists == UNION { [1..n -> OmitEntries] : n \in 1..MaxOmit }

(* ----------------------------------------------------------------- state *)
VARIABLES
    o,          \* the options record held by main
    helpSeen,   \* getopt's Seen() of the --help option
    nargs,      \* number of flags getopt has consumed
    version,    \* the package variable version
    pc,         \* position of main / options.parse
    idx,        \* index of the --omit loop
    checked,    \* validation rules evaluated so far, in order
    stderr,     \* lines written to the error stream
    stdout,     \* lines written by the help and version actions
    exitCode,   \* -1 while running, else the process exit status
    fatal,      \* the runtime failure that ended the run, "" if none
    io,         \* I/O steps of main, in order
    inputOpen,  \* the input file opened by main is open
    result,     \* the report: its source and user agent
    p,          \* the frame of process(): its by-value options and locals
    twin        \* the frame of process() called with no output path

vars == << o, helpSeen, nargs, version, pc, idx, checked, stderr, stdout,
           exitCode, fatal, io, inputOpen, result, p, twin >>

Line(m, a) == [msg |-> m, arg |-> a]
Ev(op, a, b) == [op |-> op, a |-> a, b |-> b]

(* --------------------------------------------------------------- helpers *)
\* collector.DefaultCollectConfig fields read by this file
DefaultCollectConfig ==
    [ Port |-> 5432, TimeoutSec |-> 5, LockTimeoutMillisec |-> 50,
      Schema |-> <<>>, ExclSchema |-> <<>>, Table |-> <<>>,
      ExclTable |-> <<>>, Omit |-> <<>>, UseExtendedQP |-> FALSE,
      Password |-> "" ]

\* options.defaults
defaults ==
    [ Port |-> DefaultCollectConfig.Port,
      TimeoutSec |-> DefaultCollectConfig.TimeoutSec,
      LockTimeoutMillisec |-> DefaultCollectConfig.LockTimeoutMillisec,
      Schema |-> DefaultCollectConfig.Schema,
      ExclSchema |-> DefaultCollectConfig.ExclSchema,
      Table |-> DefaultCollectConfig.Table,
      ExclTable |-> DefaultCollectConfig.ExclTable,
      Omit |-> DefaultCollectConfig.Omit,
      UseExtendedQP |-> DefaultCollectConfig.UseExtendedQP,
      Password |-> DefaultCollectConfig.Password,
      input |-> "", help |-> "", helpShort |-> FALSE, version |-> FALSE,
      format |-> "human", output |-> "", nopager |-> FALSE,
      passNone |-> FALSE, queryProto |-> "simple" ]

\* the frame of process() before it is called
NoFrame ==
    [ pc |-> "idle", output |-> "", nopager |-> FALSE, format |-> "",
      PAGER |-> "", less |-> FALSE, more |-> FALSE, tty |-> FALSE,
      pager |-> "", usePager |-> FALSE, fd |-> "", steps |-> <<>>,
      open |-> {}, pagerUp |-> FALSE, status |-> 0, err |-> "" ]

NoReport == [ src |-> "none", UserAgent |-> <<>>, uaSets |-> 0 ]

\* regexp.CompilePOSIX on the pattern alphabet: the error, or "nil"
RECURSIVE parens(_, _)
parens(r, depth) ==
    IF r = <<>> THEN (IF depth > 0 THEN "missing closing )" ELSE "nil")
    ELSE IF Head(r) = "(" THEN parens(Tail(r), depth + 1)
    ELSE IF Head(r) = ")" THEN
        (IF depth = 0 THEN "unexpected )" ELSE parens(Tail(r), depth - 1))
    ELSE parens(Tail(r), depth)
CompilePOSIX(r) == parens(r, 0)

\* getRegexp
getRegexp(r) == IF Len(r) > 0 THEN CompilePOSIX(r) ELSE "nil"

\* the conditions of the checks in options.parse
helpInvalid(opts) ==
    opts.help # "" /\ opts.help # "short" /\ opts.help # "variables"
formatInvalid(opts) ==
    opts.format # "human" /\ opts.format # "json" /\ opts.format # "csv"
portInvalid(opts) == opts.Port = 0
timeoutInvalid(opts) == opts.TimeoutSec = 0
lockTimeoutInvalid(opts) == opts.LockTimeoutMillisec = 0
omitInvalid(om) ==
    om # "tables" /\ om # "indexes" /\ om # "sequences" /\
    om # "functions" /\ om # "extensions" /\ om # "triggers" /\
    om # "statements" /\ om # "log" /\ om # "citus" /\
    om # "indexdefs" /\ om # "bloat"
queryProtoInvalid(opts) ==
    opts.queryProto # "simple" /\ opts.queryProto # "extended"

\* a mutation of checkOrder: the port check moved before the format check
checkOrderSwapped ==
    << "help", "port", "format", "timeout", "lock-timeout", "schema",
       "exclude-schema", "table", "exclude-table", "omit", "query-proto" >>
\* the order of the checks in options.parse
checkOrder ==
    << "help", "format", "port", "timeout", "lock-timeout", "schema",
       "exclude-schema", "table", "exclude-table", "omit", "query-proto" >>

PosOf(rule) == CHOOSE i \in 1..Len(checkOrder) : checkOrder[i] = rule
\* where control goes when the check of `rule` passes
afterCheck(rule) ==
    IF PosOf(rule) < Len(checkOrder) THEN checkOrder[PosOf(rule) + 1]
    ELSE "helpAction"

\* printTry
printTry == Line("Try \"pgmetrics --help\" for more information.", "")

(* ------------------------------------------------------------------ Init *)
Init ==
    /\ o = defaults
    /\ helpSeen = FALSE
    /\ nargs = 0
    /\ version \in VersionValues
    /\ pc = "getopt"
    /\ idx = 1
    /\ checked = <<>>
    /\ stderr = <<>>
    /\ stdout = <<>>
    /\ exitCode = -1
    /\ fatal = ""
    /\ io = <<>>
    /\ inputOpen = FALSE
    /\ result = NoReport
    /\ p = NoFrame
    /\ twin = NoFrame

(* ------------------------------------------------- getopt: s.Parse(os.Args) *)
\* one flag of the command line is stored into the variable bound to it
ParseArg ==
    /\ pc = "getopt"
    /\ nargs < MaxArgs
    /\ nargs' = nargs + 1
    /\ \/ \E v \in HelpValues :
            o' = [o EXCEPT !.help = v] /\ helpSeen' = TRUE
       \/ /\ UNCHANGED helpSeen
          /\ \/ o' = [o EXCEPT !.version = TRUE]
             \/ \E v \in FormatValues : o' = [o EXCEPT !.format = v]
             \/ \E v \in PortValues : o' = [o EXCEPT !.Port = v]
             \/ \E v \in TimeoutValues : o' = [o EXCEPT !.TimeoutSec = v]
             \/ \E v \in LockTimeoutValues :
                    o' = [o EXCEPT !.LockTimeoutMillisec = v]
             \/ \E v \in Patterns : o' = [o EXCEPT !.Schema = v]
             \/ \E v \in Patterns : o' = [o EXCEPT !.ExclSchema = v]
             \/ \E v \in Patterns : o' = [o EXCEPT !.Table = v]
             \/ \E v \in Patterns : o' = [o EXCEPT !.ExclTable = v]
             \/ \E v \in OmitLists :
                    /\ Len(o.Omit) + Len(v) <= MaxOmit
                    /\ o' = [o EXCEPT !.Omit = @ \o v]
             \/ \E v \in ProtoValues : o' = [o EXCEPT !.queryProto = v]
             \/ \E v \in InputValues : o' = [o EXCEPT !.input = v]
             \/ \E v \in OutputValues : o' = [o EXCEPT !.output = v]
             \/ o' = [o EXCEPT !.nopager = TRUE]
             \/ o' = [o EXCEPT !.passNone = TRUE]
    /\ UNCHANGED << version, pc, idx, checked, stderr, stdout, exitCode,
                    fatal, io, inputOpen, result, p, twin >>

\* s.Parse returns; a bare --help becomes "short"
ParseDone ==
    /\ pc = "getopt"
    /\ o' = IF helpSeen /\ o.help = "" THEN [o EXCEPT !.help = "short"] ELSE o
    /\ pc' = checkOrder[1]
    /\ UNCHANGED << helpSeen, nargs, version, idx, checked, stderr, stdout,
                    exitCode, fatal, io, inputOpen, result, p, twin >>

(* ------------------------------------------------- options.parse: checks *)
\* a check fails: its diagnostic, the usage hint, os.Exit(2)
Reject(rule, lines) ==
    /\ checked' = Append(checked, rule)
    /\ stderr' = stderr \o lines \o << printTry >>
    /\ exitCode' = 2
    /\ pc' = "exit"
    /\ UNCHANGED << o, helpSeen, nargs, version, idx, stdout, fatal, io,
                    inputOpen, result, p, twin >>

\* a check passes
Accept(rule) ==
    /\ checked' = Append(checked, rule)
    /\ pc' = afterCheck(rule)
    /\ UNCHANGED << o, helpSeen, nargs, version, idx, stderr, stdout,
                    exitCode, fatal, io, inputOpen, result, p, twin >>

CheckHelp ==
    /\ pc = "help"
    /\ IF helpInvalid(o) THEN Reject("help", <<>>) ELSE Accept("help")

CheckFormat ==
    /\ pc = "format"
    /\ IF formatInvalid(o)
       THEN Reject("format",
                << Line("option -f/--format must be \"human\", \"json\" or \"csv\"", "") >>)
       ELSE Accept("format")

CheckPort ==
    /\ pc = "port"
    /\ IF portInvalid(o)
       THEN Reject("port", << Line("port must be between 1 and 65535", "") >>)
       ELSE Accept("port")

CheckTimeout ==
    /\ pc = "timeout"
    /\ IF timeoutInvalid(o)
       THEN Reject("timeout", << Line("timeout must be greater than 0", "") >>)
       ELSE Accept("timeout")

CheckLockTimeout ==
    /\ pc = "lock-timeout"
    /\ IF lockTimeoutInvalid(o)
       THEN Reject("lock-timeout",
                << Line("lock-timeout must be greater than 0", "") >>)
       ELSE Accept("lock-timeout")

CheckSchema ==
    /\ pc = "schema"
    /\ LET err == getRegexp(o.Schema) IN
       IF err # "nil"
       THEN Reject("schema",
                << Line("bad POSIX regular expression for -c/--schema", err) >>)
       ELSE Accept("schema")

CheckExclSchema ==
    /\ pc = "exclude-schema"
    /\ LET err == getRegexp(o.ExclSchema) IN
       IF err # "nil"
       THEN Reject("exclude-schema",
                << Line("bad POSIX regular expression for -C/--exclude-schema", err) >>)
       ELSE Accept("exclude-schema")

CheckTable ==
    /\ pc = "table"
    /\ LET err == getRegexp(o.Table) IN
       IF err # "nil"
       THEN Reject("table",
                << Line("bad POSIX regular expression for -a/--table", err) >>)
       ELSE Accept("table")

CheckExclTable ==
    /\ pc = "exclude-table"
    /\ LET err == getRegexp(o.ExclTable) IN
       IF err # "nil"
       THEN Reject("exclude-table",
                << Line("bad POSIX regular expression for -A/--exclude-table", err) >>)
       ELSE Accept("exclude-table")

\* one iteration of the loop over o.CollectConfig.Omit, or its end
CheckOmit ==
    /\ pc = "omit"
    /\ IF idx > Len(o.Omit)
       THEN Accept("omit")
       ELSE IF omitInvalid(o.Omit[idx])
            THEN Reject("omit",
                     << Line("unknown item in --omit option", o.Omit[idx]) >>)
            ELSE /\ idx' = idx + 1
                 /\ UNCHANGED << o, helpSeen, nargs, version, pc, checked,
                                 stderr, stdout, exitCode, fatal, io,
                                 inputOpen, result, p, twin >>

CheckQueryProto ==
    /\ pc = "query-proto"
    /\ IF queryProtoInvalid(o)
       THEN Reject("query-proto",
                << Line("option --query-proto must be \"simple\" or \"extended\"", "") >>)
       ELSE /\ o' = [o EXCEPT !.UseExtendedQP = (o.queryProto = "extended")]
            /\ checked' = Append(checked, "query-proto")
            /\ pc' = afterCheck("query-proto")
            /\ UNCHANGED << helpSeen, nargs, version, idx, stderr, stdout,
                            exitCode, fatal, io, inputOpen, result, p, twin >>

(* --------------------------------------- options.parse: help and version *)
\* options.usage: the text it prints, to stdout when code is 0
usage(opts, code) ==
    IF opts.helpShort \/ code # 0 \/ opts.help = "short"
    THEN << Line("usage", "") >>
    ELSE IF opts.help = "variables" THEN << Line("variables", "") >>
    ELSE <<>>

\* a mutation of helpRequested: the "variables" mode forgotten
helpRequestedShortOnly(opts) ==
    opts.helpShort \/ opts.help = "short"
\* the condition of the help action
helpRequested(opts) ==
    opts.helpShort \/ opts.help = "short" \/ opts.help = "variables"

\* the help action: o.usage(0) prints and exits
HelpAction ==
    /\ pc = "helpAction"
    /\ IF helpRequested(o)
       THEN /\ stdout' = stdout \o usage(o, 0)
            /\ exitCode' = 0
            /\ pc' = "exit"
       ELSE /\ pc' = "versionAction"
            /\ UNCHANGED << stdout, exitCode >>
    /\ UNCHANGED << o, helpSeen, nargs, version, idx, checked, stderr,
                    fatal, io, inputOpen, result, p, twin >>

\* the version action; otherwise options.parse returns to main
VersionAction ==
    /\ pc = "versionAction"
    /\ IF o.version
       THEN /\ version' = IF version = "" THEN "devel" ELSE version
            /\ stdout' = Append(stdout, Line("pgmetrics", version'))
            /\ exitCode' = 0
            /\ pc' = "exit"
       ELSE /\ pc' = "password"
            /\ UNCHANGED << version, stdout, exitCode >>
    /\ UNCHANGED << o, helpSeen, nargs, idx, checked, stderr, fatal, io,
                    inputOpen, result, p, twin >>

(* ------------------------------------------------------------------ main *)
\* exit status of log.Fatal and log.Fatalf
logFatalExit == 1
\* exit status of a failure inside collector.Collect
collectFailExit == 1
\* the user agent found in a saved report
SavedUserAgent == << "pgmetrics/", "1.16.0" >>

\* log.Fatal(err) in main
MainFatal(err) ==
    /\ stderr' = Append(stderr, Line("pgmetrics: ", err))
    /\ fatal' = err
    /\ exitCode' = logFatalExit
    /\ pc' = "exit"

\* a mutation of ReadPassword: a failed read exits with the usage status
ReadPasswordExits2 ==
    /\ pc = "password"
    /\ \E PGPASSWORD \in { "", "env-pw" } :
         IF ~o.passNone /\ Len(o.input) = 0 /\ PGPASSWORD = ""
         THEN /\ stderr' = Append(stderr, Line("Password: ", ""))
              /\ io' = Append(io, Ev("ReadPassword", "", ""))
              /\ \/ \E typed \in TypedPasswords :
                      /\ o' = [o EXCEPT !.Password = typed]
                      /\ pc' = "source"
                      /\ UNCHANGED << exitCode, fatal >>
                 \/ /\ exitCode' = 2
                    /\ fatal' = "ReadPassword"
                    /\ pc' = "exit"
                    /\ UNCHANGED o
         ELSE /\ pc' = "source"
              /\ UNCHANGED << o, stderr, io, exitCode, fatal >>
    /\ UNCHANGED << helpSeen, nargs, version, idx, checked, stdout,
                    inputOpen, result, p, twin >>
\* the password prompt
ReadPassword ==
    /\ pc = "password"
    /\ \E PGPASSWORD \in { "", "env-pw" } :
         IF ~o.passNone /\ Len(o.input) = 0 /\ PGPASSWORD = ""
         THEN /\ stderr' = Append(stderr, Line("Password: ", ""))
              /\ io' = Append(io, Ev("ReadPassword", "", ""))
              /\ \/ \E typed \in TypedPasswords :
                      /\ o' = [o EXCEPT !.Password = typed]
                      /\ pc' = "source"
                      /\ UNCHANGED << exitCode, fatal >>
                 \/ /\ exitCode' = 1
                    /\ fatal' = "ReadPassword"
                    /\ pc' = "exit"
                    /\ UNCHANGED o
         ELSE /\ pc' = "source"
              /\ UNCHANGED << o, stderr, io, exitCode, fatal >>
    /\ UNCHANGED << helpSeen, nargs, version, idx, checked, stdout,
                    inputOpen, result, p, twin >>

\* a mutation of useInput: the input path ignored
useInputIgnored(opts) == FALSE
\* whether the report is loaded from the input file
useInput(opts) == Len(opts.input) > 0

\* os.Open(o.input)
OpenInput ==
    /\ pc = "source"
    /\ useInput(o)
    /\ io' = Append(io, Ev("Open", o.input, ""))
    /\ \/ /\ inputOpen' = TRUE
          /\ pc' = "decode"
          /\ UNCHANGED << stderr, fatal, exitCode >>
       \/ /\ MainFatal("Open")
          /\ UNCHANGED inputOpen
    /\ UNCHANGED << o, helpSeen, nargs, version, idx, checked, stdout,
                    result, p, twin >>

\* json.NewDecoder(f).Decode(&obj)
DecodeInput ==
    /\ pc = "decode"
    /\ io' = Append(io, Ev("Decode", o.input, ""))
    /\ \/ /\ result' = [ src |-> "file", UserAgent |-> SavedUserAgent,
                         uaSets |-> 0 ]
          /\ pc' = "closeInput"
          /\ UNCHANGED << stderr, fatal, exitCode >>
       \/ /\ MainFatal("Decode")
          /\ UNCHANGED result
    /\ UNCHANGED << o, helpSeen, nargs, version, idx, checked, stdout,
                    inputOpen, p, twin >>

\* result = &obj; f.Close()
CloseInput ==
    /\ pc = "closeInput"
    /\ inputOpen' = FALSE
    /\ io' = Append(io, Ev("Close", o.input, ""))
    /\ pc' = "callProcess"
    /\ UNCHANGED << o, helpSeen, nargs, version, idx, checked, stderr,
                    stdout, exitCode, fatal, result, p, twin >>

\* collector.Collect(o.CollectConfig, args)
Collect ==
    /\ pc = "source"
    /\ ~useInput(o)
    /\ io' = Append(io, Ev("Collect", "", ""))
    /\ \/ /\ result' = [ src |-> "collector", UserAgent |-> <<>>,
                         uaSets |-> 0 ]
          /\ pc' = "userAgent"
          /\ UNCHANGED << stderr, fatal, exitCode >>
       \/ /\ stderr' = Append(stderr, Line("pgmetrics: ", "Collect"))
          /\ fatal' = "Collect"
          /\ exitCode' = collectFailExit
          /\ pc' = "exit"
          /\ UNCHANGED result
    /\ UNCHANGED << o, helpSeen, nargs, version, idx, checked, stdout,
                    inputOpen, p, twin >>

\* the user agent of a collected report
userAgent(v) ==
    IF Len(v) = 0 THEN << "pgmetrics/", "devel" >> ELSE << "pgmetrics/", v >>

\* add the user agent
SetUserAgent ==
    /\ pc = "userAgent"
    /\ result' = [result EXCEPT !.UserAgent = userAgent(version),
                                !.uaSets = @ + 1]
    /\ io' = Append(io, Ev("SetUserAgent", "", ""))
    /\ pc' = "callProcess"
    /\ UNCHANGED << o, helpSeen, nargs, version, idx, checked, stderr,
                    stdout, exitCode, fatal, inputOpen, p, twin >>

\* the frame process() starts with: a by-value copy of the options
frame(opts) ==
    [NoFrame EXCEPT !.pc = "normalize", !.output = opts.output,
                    !.nopager = opts.nopager, !.format = opts.format]

\* process(result, o, args) is called; the twin is the same call with
\* "no output path" in place of the "-" path
CallProcess ==
    /\ pc = "callProcess"
    /\ p' = frame(o)
    /\ twin' = frame([o EXCEPT !.output = IF @ = "-" THEN "" ELSE @])
    /\ pc' = "process"
    /\ UNCHANGED << o, helpSeen, nargs, version, idx, checked, stderr,
                    stdout, exitCode, fatal, io, inputOpen, result >>

(* --------------------------------------------------------------- process *)
\* what the environment hands to one step of process()
NoIn == [ PAGER |-> "", less |-> FALSE, more |-> FALSE, tty |-> FALSE,
          ok |-> TRUE, status |-> 0 ]
PagerStatuses == { 0, 1 }

\* log.Fatal(err) inside process() or an encoder
die(r, err) == [r EXCEPT !.pc = "fatal", !.err = err]

\* a mutation of normalize: the "-" path kept
normalizeKeepsDash(r) == [r EXCEPT !.pc = "resolve"]
\* if o.output == "-" { o.output = "" }
normalize(r) ==
    [r EXCEPT !.output = IF @ = "-" THEN "" ELSE @, !.pc = "resolve"]

\* pager := os.Getenv("PAGER"), else less, else more, by exec.LookPath
resolvePager(r, in) ==
    [r EXCEPT !.PAGER = in.PAGER, !.less = in.less, !.more = in.more,
              !.pager = IF in.PAGER # "" THEN in.PAGER
                        ELSE IF in.less THEN "less"
                        ELSE IF in.more THEN "more"
                        ELSE "",
              !.pc = "decide"]

\* a mutation of usePager: the terminal test dropped
usePagerIgnoresTerminal(r, tty) ==
    r.output = "" /\ ~r.nopager /\ r.pager # ""
\* usePager := o.output == "" && !o.nopager && pager != "" && term.IsTerminal(...)
usePager(r, tty) ==
    r.output = "" /\ ~r.nopager /\ r.pager # "" /\ tty

\* the three-way branch of process()
decide(r, in) ==
    LET use == usePager(r, in.tty) IN
    [r EXCEPT !.tty = in.tty, !.usePager = use,
              !.pc = IF use THEN "pipe"
                     ELSE IF r.output # "" THEN "create"
                     ELSE "writeStdout"]

\* cmd := exec.Command(pager); pagerStdin, err := cmd.StdinPipe()
stdinPipe(r, in) ==
    IF in.ok
    THEN [r EXCEPT !.open = @ \cup { "pipe" },
                   !.steps = Append(@, Ev("StdinPipe", r.pager, "")),
                   !.pc = "start"]
    ELSE die(r, "StdinPipe")

\* cmd.Start()
start(r, in) ==
    IF in.ok
    THEN [r EXCEPT !.pagerUp = TRUE,
                   !.steps = Append(@, Ev("Start", r.pager, "")),
                   !.pc = "writePager"]
    ELSE die(r, "Start")

\* a mutation of variant: the csv case missing
variantCsvFallsThrough(format) ==
    CASE format = "json" -> "json"
      [] OTHER -> "human"
\* the switch of writeTo
variant(format) ==
    CASE format = "json" -> "json"
      [] format = "csv" -> "csv"
      [] OTHER -> "human"

\* writeHumanTo: whether its failure ends the run
writeHumanToFatal == TRUE

\* writeTo(fd, o, result): one encoder runs on fd; its failure is log.Fatal
writeTo(r, fd, in, next) ==
    LET v == variant(r.format)
        called == [r EXCEPT !.fd = fd,
                            !.steps = Append(@, Ev("writeTo", v, fd))]
    IN  IF ~in.ok /\ (v \in { "json", "csv" } \/ writeHumanToFatal)
        THEN die(called, "Encode")
        ELSE [called EXCEPT !.pc = next]

\* pagerStdin.Close()
closePipe(r) ==
    [r EXCEPT !.open = @ \ { "pipe" },
              !.steps = Append(@, Ev("Close", "pipe", "")),
              !.pc = "wait"]

\* a mutation of wait: a non-zero pager status is fatal
waitPropagates(r, in) ==
    IF in.status # 0 THEN die(r, "Wait")
    ELSE [r EXCEPT !.pagerUp = FALSE, !.status = in.status,
                   !.steps = Append(@, Ev("Wait", r.pager, "")),
                   !.pc = "ret"]
\* _ = cmd.Wait()
wait(r, in) ==
    [r EXCEPT !.pagerUp = FALSE, !.status = in.status,
              !.steps = Append(@, Ev("Wait", r.pager, "")),
              !.pc = "ret"]

\* f, err := os.Create(o.output)
create(r, in) ==
    IF in.ok
    THEN [r EXCEPT !.open = @ \cup { "file" },
                   !.steps = Append(@, Ev("Create", r.output, "")),
                   !.pc = "writeFile"]
    ELSE die(r, "Create")

\* f.Close()
closeFile(r) ==
    [r EXCEPT !.open = @ \ { "file" },
              !.steps = Append(@, Ev("Close", "file", "")),
              !.pc = "ret"]

\* the statement of process() a frame is at, executed
Advance(r, in) ==
    CASE r.pc = "normalize" -> normalize(r)
      [] r.pc = "resolve" -> resolvePager(r, in)
      [] r.pc = "decide" -> decide(r, in)
      [] r.pc = "pipe" -> stdinPipe(r, in)
      [] r.pc = "start" -> start(r, in)
      [] r.pc = "writePager" -> writeTo(r, "pager", in, "closePipe")
      [] r.pc = "closePipe" -> closePipe(r)
      [] r.pc = "wait" -> wait(r, in)
      [] r.pc = "create" -> create(r, in)
      [] r.pc = "writeFile" -> writeTo(r, "file", in, "closeFile")
      [] r.pc = "closeFile" -> closeFile(r)
      [] r.pc = "writeStdout" -> writeTo(r, "stdout", in, "ret")
      [] OTHER -> r

\* one statement of process(): the frame moves to r2, the twin executes its
\* own statement on the same environment, and log.Fatal ends the run
Step(r2, in) ==
    /\ p' = r2
    /\ twin' = Advance(twin, in)
    /\ IF r2.pc = "fatal"
       THEN /\ stderr' = Append(stderr, Line("pgmetrics: ", r2.err))
            /\ fatal' = r2.err
            /\ exitCode' = logFatalExit
            /\ pc' = "exit"
       ELSE UNCHANGED << stderr, fatal, exitCode, pc >>
    /\ UNCHANGED << o, helpSeen, nargs, version, idx, checked, stdout, io,
                    inputOpen, result >>

At(l) == pc = "process" /\ p.pc = l

\* a mutation of Normalize: process() given a pointer to main's options
NormalizeByReference ==
    /\ At("normalize")
    /\ p' = normalize(p)
    /\ twin' = Advance(twin, NoIn)
    /\ o' = [o EXCEPT !.output = IF @ = "-" THEN "" ELSE @]
    /\ UNCHANGED << helpSeen, nargs, version, pc, idx, checked, stderr,
                    stdout, exitCode, fatal, io, inputOpen, result >>
Normalize == At("normalize") /\ Step(normalize(p), NoIn)

ResolvePager ==
    /\ At("resolve")
    /\ \E pg \in PagerEnvValues, l \in BOOLEAN, m \in BOOLEAN :
         LET in == [NoIn EXCEPT !.PAGER = pg, !.less = l, !.more = m]
         IN  Step(resolvePager(p, in), in)

Decide ==
    /\ At("decide")
    /\ \E t \in BOOLEAN :
         LET in == [NoIn EXCEPT !.tty = t] IN Step(decide(p, in), in)

StdinPipe ==
    /\ At("pipe")
    /\ \E ok \in BOOLEAN :
         LET in == [NoIn EXCEPT !.ok = ok] IN Step(stdinPipe(p, in), in)

Start ==
    /\ At("start")
    /\ \E ok \in BOOLEAN :
         LET in == [NoIn EXCEPT !.ok = ok] IN Step(start(p, in), in)

WritePager ==
    /\ At("writePager")
    /\ \E ok \in BOOLEAN :
         LET in == [NoIn EXCEPT !.ok = ok]
         IN  Step(writeTo(p, "pager", in, "closePipe"), in)

ClosePipe == At("closePipe") /\ Step(closePipe(p), NoIn)

Wait ==
    /\ At("wait")
    /\ \E st \in PagerStatuses :
         LET in == [NoIn EXCEPT !.status = st] IN Step(wait(p, in), in)

Create ==
    /\ At("create")
    /\ \E ok \in BOOLEAN :
         LET in == [NoIn EXCEPT !.ok = ok] IN Step(create(p, in), in)

WriteFile ==
    /\ At("writeFile")
    /\ \E ok \in BOOLEAN :
         LET in == [NoIn EXCEPT !.ok = ok]
         IN  Step(writeTo(p, "file", in, "closeFile"), in)

CloseFile == At("closeFile") /\ Step(closeFile(p), NoIn)

WriteStdout ==
    /\ At("writeStdout")
    /\ \E ok \in BOOLEAN :
         LET in == [NoIn EXCEPT !.ok = ok]
         IN  Step(writeTo(p, "stdout", in, "ret"), in)

\* process() returns and main returns: exit status 0
Return ==
    /\ At("ret")
    /\ exitCode' = 0
    /\ pc' = "exit"
    /\ UNCHANGED << o, helpSeen, nargs, version, idx, checked, stderr,
                    stdout, fatal, io, inputOpen, result, p, twin >>

Next ==
    \/ ParseArg
    \/ ParseDone
    \/ CheckHelp
    \/ CheckFormat
    \/ CheckPort
    \/ CheckTimeout
    \/ CheckLockTimeout
    \/ CheckSchema
    \/ CheckExclSchema
    \/ CheckTable
    \/ CheckExclTable
    \/ CheckOmit
    \/ CheckQueryProto
    \/ HelpAction
    \/ VersionAction
    \/ ReadPassword
    \/ OpenInput
    \/ DecodeInput
    \/ CloseInput
    \/ Collect
    \/ SetUserAgent
    \/ CallProcess
    \/ Normalize
    \/ ResolvePager
    \/ Decide
    \/ StdinPipe
    \/ Start
    \/ WritePager
    \/ ClosePipe
    \/ Wait
    \/ Create
    \/ WriteFile
    \/ CloseFile
    \/ WriteStdout
    \/ Return

Spec == Init /\ [][Next]_vars

(* ---------------------------------------------------------------- claims *)
\* the rules of the validation contract, in the order the contract gives
RuleOrder ==
    << "help", "format", "port", "timeout", "lock-timeout", "schema",
       "exclude-schema", "table", "exclude-table", "omit", "query-proto" >>
OmitVocabulary ==
    { "tables", "indexes", "sequences", "functions", "extensions",
      "triggers", "statements", "log", "citus", "indexdefs", "bloat" }
BadRegexp(r) == r # <<>> /\ CompilePOSIX(r) # "nil"
BadOmits(opts) == { i \in 1..Len(opts.Omit) : opts.Omit[i] \notin OmitVocabulary }
RuleFails(rule, opts) ==
    CASE rule = "help" -> opts.help \notin { "", "short", "variables" }
      [] rule = "format" -> opts.format \notin { "human", "json", "csv" }
      [] rule = "port" -> opts.Port = 0
      [] rule = "timeout" -> opts.TimeoutSec = 0
      [] rule = "lock-timeout" -> opts.LockTimeoutMillisec = 0
      [] rule = "schema" -> BadRegexp(opts.Schema)
      [] rule = "exclude-schema" -> BadRegexp(opts.ExclSchema)
      [] rule = "table" -> BadRegexp(opts.Table)
      [] rule = "exclude-table" -> BadRegexp(opts.ExclTable)
      [] rule = "omit" -> BadOmits(opts) # {}
      [] rule = "query-proto" -> opts.queryProto \notin { "simple", "extended" }
Failing(opts) == { i \in 1..Len(RuleOrder) : RuleFails(RuleOrder[i], opts) }
\* the position of the first failing rule, 0 when every rule passes
FirstFailing(opts) ==
    IF Failing(opts) = {} THEN 0
    ELSE CHOOSE i \in Failing(opts) : \A j \in Failing(opts) : i <= j
Minimum(S) == CHOOSE i \in S : \A j \in S : i <= j
\* the diagnostic of a failing rule: its text and the value it names
Diagnostic(rule, opts) ==
    CASE rule = "help" -> <<>>
      [] rule = "format" ->
            << Line("option -f/--format must be \"human\", \"json\" or \"csv\"", "") >>
      [] rule = "port" -> << Line("port must be between 1 and 65535", "") >>
      [] rule = "timeout" -> << Line("timeout must be greater than 0", "") >>
      [] rule = "lock-timeout" ->
            << Line("lock-timeout must be greater than 0", "") >>
      [] rule = "schema" ->
            << Line("bad POSIX regular expression for -c/--schema",
                    CompilePOSIX(opts.Schema)) >>
      [] rule = "exclude-schema" ->
            << Line("bad POSIX regular expression for -C/--exclude-schema",
                    CompilePOSIX(opts.ExclSchema)) >>
      [] rule = "table" ->
            << Line("bad POSIX regular expression for -a/--table",
                    CompilePOSIX(opts.Table)) >>
      [] rule = "exclude-table" ->
            << Line("bad POSIX regular expression for -A/--exclude-table",
                    CompilePOSIX(opts.ExclTable)) >>
      [] rule = "omit" ->
            << Line("unknown item in --omit option",
                    opts.Omit[Minimum(BadOmits(opts))]) >>
      [] rule = "query-proto" ->
            << Line("option --query-proto must be \"simple\" or \"extended\"", "") >>

\* positions of main inside options.parse
ParsePcs ==
    { "getopt", "helpAction", "versionAction" }
        \cup { RuleOrder[i] : i \in 1..Len(RuleOrder) }
Parsed == pc # "getopt"
Exited == pc = "exit"
Ops(steps) == [ i \in 1..Len(steps) |-> steps[i].op ]
Count(steps, op) == Cardinality({ i \in 1..Len(steps) : steps[i].op = op })
IsPrefix(s, t) == Len(s) <= Len(t) /\ s = SubSeq(t, 1, Len(s))

\* C1: when some validation rule fails, the run never gets past the first
\* failing rule of the fixed order help, format, port, timeout, lock
\* timeout, schema, exclude-schema, table, exclude-table, omit entries,
\* query protocol; it ends with exit code 2 having evaluated the rules up to
\* that one only, and the error stream holds that rule's diagnostic and
\* the usage hint and nothing else.
C1_FirstFailingRuleOnly ==
    Parsed =>
        LET k == FirstFailing(o) IN
        k # 0 =>
            /\ pc \in { RuleOrder[i] : i \in 1..k } \cup { "exit" }
            /\ IsPrefix(checked, SubSeq(RuleOrder, 1, k))
            /\ Exited =>
                /\ exitCode = 2
                /\ checked = SubSeq(RuleOrder, 1, k)
                /\ stderr = Diagnostic(RuleOrder[k], o) \o << printTry >>
C1_Witness ==
    /\ Exited
    /\ RuleFails("format", o) /\ RuleFails("omit", o)
    /\ checked = << "help", "format" >>
    /\ exitCode = 2
C1_OmitWitness ==
    /\ Exited /\ exitCode = 2
    /\ o.Omit = << "junk", "nope" >> /\ RuleFails("query-proto", o)
    /\ stderr = << Line("unknown item in --omit option", "junk"), printTry >>

\* help or version asked for, the help mode being a recognised one
HelpOrVersionAsked ==
    (helpSeen /\ o.help \in { "short", "variables" }) \/ o.version
HelpOrVersionText ==
    IF helpSeen /\ o.help = "short" THEN << Line("usage", "") >>
    ELSE IF helpSeen /\ o.help = "variables" THEN << Line("variables", "") >>
    ELSE << Line("pgmetrics", IF version = "" THEN "devel" ELSE version) >>

\* C2 as stated: whenever help (bare, "short" or "variables") or version is
\* asked for, the run ends with exit code 0 and reports no validation
\* failure, whatever the other option values are.
C2_HelpVersionBeforeValidation ==
    (Exited /\ HelpOrVersionAsked) => (exitCode = 0 /\ stderr = <<>>)

\* C2 amended: whenever help (bare, "short" or "variables") or version is
\* asked for and no validation rule fails, the run ends inside
\* options.parse with exit code 0, having printed the help text (help wins
\* over version) or the version string, before any I/O step; when a rule
\* fails, the run ends with exit code 2 and prints neither.
C2_HelpVersionAfterValidation ==
    (Parsed /\ HelpOrVersionAsked) =>
        /\ pc \in ParsePcs \cup { "exit" }
        /\ io = <<>> /\ p = NoFrame
        /\ Exited =>
            IF FirstFailing(o) = 0
            THEN exitCode = 0 /\ stderr = <<>> /\ stdout = HelpOrVersionText
            ELSE exitCode = 2 /\ stdout = <<>>
C2_Witness ==
    /\ Exited /\ exitCode = 0
    /\ helpSeen /\ o.help = "variables" /\ o.version
    /\ stdout = << Line("variables", "") >>

RuntimeFailures ==
    { "ReadPassword", "Open", "Decode", "Collect", "StdinPipe", "Start",
      "Encode", "Create" }

ResolvedPager(PAGER, less, more) ==
    IF PAGER # "" THEN PAGER
    ELSE IF less THEN "less"
    ELSE IF more THEN "more"
    ELSE ""
PagerTouched(r) == Count(r.steps, "StdinPipe") + Count(r.steps, "Start") > 0
Decided(r) == r.pc \notin { "idle", "normalize", "resolve", "decide" }

\* C4: process() uses the pager if and only if the output path is empty or
\* "-", the no-pager flag is unset, a pager program is resolved (PAGER, else
\* less, else more) and standard output is a terminal; the pager is touched
\* only then, and never when standard output is not a terminal.
C4_PagerIffAllFour ==
    Decided(p) =>
        /\ p.usePager <=>
              /\ o.output \in { "", "-" }
              /\ ~o.nopager
              /\ ResolvedPager(p.PAGER, p.less, p.more) # ""
              /\ p.tty
        /\ p.pager = ResolvedPager(p.PAGER, p.less, p.more)
        /\ PagerTouched(p) => p.usePager
        /\ (p.usePager /\ p.pc # "pipe" /\ p.err # "StdinPipe")
              => PagerTouched(p)
        /\ ~p.tty => ~PagerTouched(p) /\ ~p.pagerUp
C4_Witness ==
    /\ p.usePager /\ p.pagerUp
    /\ p.PAGER = "" /\ ~p.less /\ p.more /\ p.pager = "more"
    /\ o.output = "-"

\* C5: a run with output path "-" takes the same branch, writes to the same
\* destination and performs the same output steps as the run with no
\* output path on the same environment, and never creates a file named "-".
C5_DashIsNoPath ==
    (o.output = "-" /\ p.pc \notin { "idle", "normalize" }) =>
        /\ p.pc = twin.pc
        /\ p.usePager = twin.usePager
        /\ p.fd = twin.fd
        /\ p.steps = twin.steps
        /\ p.open = twin.open
        /\ \A i \in 1..Len(p.steps) :
              p.steps[i].op = "Create" => p.steps[i].a # "-"
C5_Witness ==
    /\ o.output = "-" /\ o.nopager
    /\ p.pc = "ret" /\ p.fd = "stdout" /\ twin.fd = "stdout"
    /\ p.PAGER # "" /\ p.tty

Destinations == { "pager", "file", "stdout" }

\* C6: when process() returns, exactly one encoder invocation has happened,
\* its variant is the one the validated format names, and it wrote to
\* exactly one of pager pipe, named file and standard output: the pipe
\* when the pager is used, else the file when one was created, else stdout.
C6_OneEncoderOneDestination ==
    p.pc = "ret" =>
        /\ Count(p.steps, "writeTo") = 1
        /\ \A i \in 1..Len(p.steps) :
              p.steps[i].op = "writeTo" =>
                  /\ p.steps[i].a = o.format
                  /\ p.steps[i].b \in Destinations
                  /\ p.steps[i].b = p.fd
                  /\ p.steps[i].b = "pager" <=> p.usePager
                  /\ p.steps[i].b = "file" <=> Count(p.steps, "Create") = 1
                  /\ p.steps[i].b = "file" <=> o.output \notin { "", "-" }
C6_Witness ==
    /\ Exited /\ exitCode = 0 /\ p.pc = "ret"
    /\ o.format = "csv" /\ p.fd = "file"
    /\ Count(p.steps, "writeTo") = 1

\* C7: the process never terminates while a pager pipe or output file it
\* opened is still open, nor with a started pager left on an unclosed pipe.
C7_ClosedOnEveryExit ==
    Exited => (p.open = {} /\ ~p.pagerUp)

PagerSequence == << "StdinPipe", "Start", "writeTo", "Close", "Wait" >>

\* C8: when the pager is used the steps are, in order, obtain the pipe,
\* start the pager, write, close the pipe, wait; the pipe is closed before
\* the wait; a failure to obtain the pipe or to start the pager ends the
\* run with status 1 before anything is written; the pager's exit status
\* does not change the run's exit status, which is 0.
C8_PagerLifecycle ==
    p.usePager =>
        /\ IsPrefix(Ops(p.steps), PagerSequence)
        /\ Count(p.steps, "Wait") = 1 => "pipe" \notin p.open
        /\ p.pc = "wait" => "pipe" \notin p.open
        /\ fatal \in { "StdinPipe", "Start" } =>
              (exitCode = 1 /\ Count(p.steps, "writeTo") = 0)
        /\ fatal \notin { "", "StdinPipe", "Start", "Encode" } => FALSE
        /\ (Exited /\ fatal = "") =>
              (exitCode = 0 /\ Ops(p.steps) = PagerSequence)
C8_Witness ==
    /\ Exited /\ exitCode = 0
    /\ p.usePager /\ p.status = 1
    /\ Ops(p.steps) = PagerSequence

Sourced == pc \in { "callProcess", "process" } \/ p.pc # "idle"
Last(s) == s[Len(s)]

C10_OptionsNeverChange ==
    [][pc \notin ParsePcs => o' = o]_vars

\* C10 amended: once options.parse has returned, no step changes any field
\* of the options record held by main except the connection password,
\* which only the password prompt sets; process() changes the output path
\* of its own copy only.
C10_OnlyPasswordChanges ==
    [][pc \notin ParsePcs =>
          /\ o' = [o EXCEPT !.Password = o'.Password]
          /\ o'.Password # o.Password => pc = "password"]_vars
C10_Witness ==
    /\ pc = "process" /\ p.pc = "resolve"
    /\ o.output = "-" /\ p.output = ""
    /\ o.Password = "pw"
====
